---- MODULE Spec2Model ----
(***************************************************************************)
(* The distributed histogram of get_counts.cpp (the same pipeline closes   *)
(* sampler_test.cpp): rank 0 reads input.bin, the element count is         *)
(* broadcast, the stream is scattered in equal contiguous slices, every    *)
(* rank counts its slice into a 1024-bucket histogram, the histograms are  *)
(* sum-reduced to rank 0, and rank 0 writes the non-zero buckets to        *)
(* output.json.                                                            *)
(*                                                                         *)
(* Spec is get_counts on short files, sample by sample; FairSpec is Spec   *)
(* with every rank scheduled fairly; BulkSpec is get_counts on long files  *)
(* and on no file, where the counters and total_count reach the ends of    *)
(* their ranges; SamplerSpec is sampler_test, followed by get_counts on    *)
(* the input.bin that sampler_test wrote.                                  *)
(***************************************************************************)
EXTENDS Integers, Sequences, FiniteSets, TLC

\* ------------------------------------------------------------------ bounds

\* Longest input.bin, in 32-bit words.
MaxN == 3

\* Largest number of ranks in MPI_COMM_WORLD.
MaxW == 3

\* The sample values the inputs are drawn from: the lowest bucket, a middle
\* bucket, the highest bucket, and the first value out of range.
SampleValues == {0, 7, 1023, 1024}

\* --------------------------------------------------------------- constants

BITLEN == 10

MAXVAL == 2 ^ BITLEN

SIZEOF_UINT32 == 4

\* The counters are C++ int (32-bit two's complement).
INT_MAX == 2147483647

INT_MIN == -INT_MAX - 1

Buckets == 0 .. (MAXVAL - 1)

\* std::vector<int>(n, 0).  A vector of int is held as its length and the
\* function nz from the indices of its non-zero elements to their values:
\* every element whose index is not in DOMAIN nz is 0.
IntVec(n) == [len |-> n, nz |-> << >>]

\* Element b of the int vector h (b < h.len).
At(h, b) == IF b \in DOMAIN h.nz THEN h.nz[b] ELSE 0

\* The int vector of length n whose element b is f[b] for b in DOMAIN f
\* and 0 elsewhere.
MakeVec(n, f) ==
    [len |-> n, nz |-> [b \in {k \in DOMAIN f : f[k] # 0} |-> f[b]]]

\* The int vector h after h[b] = c.
Put(h, b, c) ==
    MakeVec(h.len, [k \in DOMAIN h.nz \cup {b} |-> IF k = b THEN c ELSE At(h, k)])

\* std::vector<int>(MAXVAL, 0)
ZeroHist == IntVec(MAXVAL)

\* std::vector<uint32_t> that was never resized.
EmptyVec == << >>

\* The state of output.json before any rank has opened it for writing.
NoFile == << >>

\* ------------------------------------------------------------------- state

VARIABLES
    size,          \* MPI_Comm_size: the number of ranks W
    input_bin,     \* the words of input.bin, in file order
    pc,            \* pc[r]: where rank r is in main
    total_count,   \* total_count[r]
    data,          \* data[r]: the vector read from the file (rank 0 only)
    local_n,       \* local_n[r]
    local_data,    \* local_data[r]: the receive buffer of the scatter
    idx,           \* idx[r]: elements of local_data[r] already counted
    local_hist,    \* local_hist[r]
    global_hist,   \* global_hist[r]: resized at rank 0 only
    bcast_msg,     \* bcast_msg[r]: the broadcast value in flight to rank r
    scatter_msg,   \* scatter_msg[r]: the block in flight to rank r
    arrived,       \* ranks whose send buffer has reached the reduce
    reduced,       \* ranks whose contribution the root has summed in
    output_json,   \* the text of output.json, one character per element
    writes         \* how many times output.json has been written

vars == << size, input_bin, pc, total_count, data, local_n, local_data, idx,
           local_hist, global_hist, bcast_msg, scatter_msg, arrived, reduced,
           output_json, writes >>

Ranks == 0 .. (size - 1)

ROOT == 0

\* ------------------------------------------------- the code's pure pieces

\* Line 21: tellg() at the end of the file, in bytes.
FileSize(f) == SIZEOF_UINT32 * Len(f)

\* Line 21: total_count = fin.tellg() / sizeof(uint32_t).  Files of up to
\* MaxN words are far from the uint32_t range of total_count.
ElementCount(f) == FileSize(f) \div SIZEOF_UINT32

\* Lines 24-25: data.resize(total_count); fin.read(data, total_count * 4).
ReadWords(f, n) == SubSeq(f, 1, n)

\* The quotient of the uint32_t u by w, both unsigned. A uint32_t from
\* 2^31 on is held as u - 2^32, the integer with the same 32 bits; it is
\* then 2^31 + a with a as below.
UDiv32(u, w) ==
    IF u >= 0 THEN u \div w
    ELSE IF w = 1 THEN u
    ELSE LET a == (INT_MAX + u) + 1
         IN  (a \div w) + (INT_MAX \div w)
                 + (((a % w) + (INT_MAX % w) + 1) \div w)

\* Line 31: local_n = total_count / size.
LocalN(n, w) == UDiv32(n, w)

\* ScatterBlock with the rank's offset forgotten: every rank is sent block 0.
ScatterBlockNoOffset(d, r, ln) == SubSeq(d, 1, ln)

\* ScatterBlock with the remainder handed to the last rank.
ScatterBlockWithTail(d, r, ln) ==
    SubSeq(d, r * ln + 1, IF r = size - 1 THEN Len(d) ELSE (r + 1) * ln)

\* ScatterBlock that numbers the blocks from the end of the send buffer.
ScatterBlockFromEnd(d, r, ln) ==
    SubSeq(d, Len(d) - (r + 1) * ln + 1, Len(d) - r * ln)

\* Lines 34-36 at the root: the block of sendcount = ln elements that
\* MPI_Scatter takes from the send buffer for rank r.
ScatterBlock(d, r, ln) == SubSeq(d, r * ln + 1, (r + 1) * ln)

\* Line 32: std::vector<uint32_t> local_data(local_n), value-initialised.
ZeroVec(ln) == [k \in 1 .. ln |-> 0]

\* Line 40, local_hist[v]++ on an int: the values the counter can take.
\* Signed overflow is undefined; the builds either wrap or trap/saturate.
IncOutcomes(c) == IF c < INT_MAX THEN {c + 1} ELSE {INT_MIN, c}

\* CountOutcomes with the range test replaced by a mask of the index.
CountOutcomesMasked(hist, v) ==
    {Put(hist, v % MAXVAL, c) : c \in IncOutcomes(At(hist, v % MAXVAL))}

\* CountOutcomes with the range test off by one (v <= MAXVAL).
CountOutcomesInclusive(hist, v) ==
    IF v <= MAXVAL
        THEN {Put(hist, v, c) : c \in IncOutcomes(At(hist, v))}
        ELSE {hist}

\* Lines 39-41, one iteration of the counting loop on the sample v: the
\* histograms the iteration can leave.
CountOutcomes(hist, v) ==
    IF v < MAXVAL
        THEN {Put(hist, v, c) : c \in IncOutcomes(At(hist, v))}
        ELSE {hist}

\* Lines 46-48, MPI_SUM on MPI_INT for one bucket when a + b leaves the int
\* range: the two's-complement wrap of a + b.
WrapAdd(a, b) ==
    IF b > 0 /\ a > INT_MAX - b THEN (a - INT_MAX - 1) + (b + INT_MIN)
    ELSE IF b < 0 /\ a < INT_MIN - b THEN (a + INT_MAX + 1) + (b - INT_MIN)
    ELSE a + b

\* Whether a + b stays in the int range.
AddFits(a, b) ==
    /\ ~(b > 0 /\ a > INT_MAX - b)
    /\ ~(b < 0 /\ a < INT_MIN - b)

\* ReduceOutcomes with MPI_MAX in the place of MPI_SUM.
ReduceOutcomesMax(acc, contrib) ==
    {MakeVec(acc.len,
             [b \in DOMAIN acc.nz \cup DOMAIN contrib.nz |->
                 IF At(acc, b) >= At(contrib, b) THEN At(acc, b)
                 ELSE At(contrib, b)])}

\* ReduceOutcomes that overwrites the receive buffer with each arrival.
ReduceOutcomesLast(acc, contrib) == {[contrib EXCEPT !.len = acc.len]}

\* Lines 46-48: the element-wise MPI_SUM of the MAXVAL elements of a
\* contribution into the receive buffer (0 + 0 = 0 where both are 0).
\* Within the int range the result is acc + contrib; a signed overflow is
\* undefined, and the builds either wrap or trap.
ReduceOutcomes(acc, contrib) ==
    LET dom == DOMAIN acc.nz \cup DOMAIN contrib.nz
    IN  IF \A b \in dom : AddFits(At(acc, b), At(contrib, b))
            THEN {MakeVec(acc.len, [b \in dom |-> At(acc, b) + At(contrib, b)])}
            ELSE {MakeVec(acc.len,
                          [b \in dom |-> WrapAdd(At(acc, b), At(contrib, b))]),
                  acc}

\* Lines 34-36 at a receiver: the message lands in the first Len(msg)
\* slots of the receive buffer.
RecvInto(buf, msg) ==
    [k \in 1 .. Len(buf) |-> IF k <= Len(msg) THEN msg[k] ELSE buf[k]]

\* operator<< of a digit.
Digits == << "0", "1", "2", "3", "4", "5", "6", "7", "8", "9" >>

\* operator<< of an integer: its decimal text, most significant digit first.
RECURSIVE ToDecimal(_)
ToDecimal(n) ==
    IF n < 0 THEN << "-" >> \o ToDecimal(-n)
    ELSE IF n < 10 THEN << Digits[n + 1] >>
    ELSE ToDecimal(n \div 10) \o << Digits[(n % 10) + 1] >>

\* Lines 52-53: the emitter's state before the loop.
EmitStart == [text |-> << "{" >>, first |-> TRUE]

\* EmitBody that writes the comma after every entry.
EmitBodyTrailingComma(gh, st, i) ==
    IF At(gh, i) > 0
        THEN [text  |-> st.text
                          \o << "\"" >> \o ToDecimal(i) \o << "\"", ":" >>
                          \o ToDecimal(At(gh, i)) \o << "," >>,
              first |-> FALSE]
        ELSE st

\* EmitBody with the test >= 0 in the place of > 0.
EmitBodyNonNegative(gh, st, i) ==
    IF At(gh, i) >= 0
        THEN [text  |-> st.text
                          \o (IF ~st.first THEN << "," >> ELSE << >>)
                          \o << "\"" >> \o ToDecimal(i) \o << "\"", ":" >>
                          \o ToDecimal(At(gh, i)),
              first |-> FALSE]
        ELSE st

\* Lines 55-59: one iteration of the emitter's loop, on bucket i.
EmitBody(gh, st, i) ==
    IF At(gh, i) > 0
        THEN [text  |-> st.text
                          \o (IF ~st.first THEN << "," >> ELSE << >>)
                          \o << "\"" >> \o ToDecimal(i) \o << "\"", ":" >>
                          \o ToDecimal(At(gh, i)),
              first |-> FALSE]
        ELSE st

\* Lines 54-60: the iterations lo <= i < hi of the loop, in ascending
\* order of i (the first half of the range, then the second half; the
\* middle of the range and the state after the first half are bound, so
\* that each is evaluated once, before the second half is entered).
RECURSIVE EmitLoop(_, _, _, _)
EmitLoop(gh, st, lo, hi) ==
    IF st.first \in BOOLEAN /\ lo >= hi THEN st
    ELSE IF hi = lo + 1 THEN EmitBody(gh, st, lo)
    ELSE CHOOSE out \in
            {EmitLoop(gh, half[2], half[1], hi) :
                half \in {<< mid, EmitLoop(gh, st, lo, mid) >> :
                              mid \in {(lo + hi) \div 2}}} : TRUE

\* EmitText whose loop starts at bucket 1.
EmitTextFromOne(gh) == EmitLoop(gh, EmitStart, 1, MAXVAL).text \o << "}", "\n" >>

\* Lines 51-62: the text written to output.json for the histogram gh.
EmitText(gh) == EmitLoop(gh, EmitStart, 0, MAXVAL).text \o << "}", "\n" >>

\* -------------------------------------------------------------- the inputs

\* The sequences over S of length 0 .. n.
SeqsUpTo(S, n) == UNION {[1 .. k -> S] : k \in 0 .. n}

\* The state after MPI_Init, MPI_Comm_rank, MPI_Comm_size and lines 16-17.
\* The test of line 19 is false at every rank but 0, whose next statement
\* is the broadcast of line 29.
Init ==
    /\ size \in 1 .. MaxW
    /\ input_bin \in SeqsUpTo(SampleValues, MaxN)
    /\ pc = [r \in Ranks |-> IF r = ROOT THEN "read" ELSE "bcast"]
    /\ total_count = [r \in Ranks |-> 0]
    /\ data = [r \in Ranks |-> EmptyVec]
    /\ local_n = [r \in Ranks |-> 0]
    /\ local_data = [r \in Ranks |-> EmptyVec]
    /\ idx = [r \in Ranks |-> 0]
    /\ local_hist = [r \in Ranks |-> IntVec(0)]
    /\ global_hist = [r \in Ranks |-> IntVec(0)]
    /\ bcast_msg = << >>
    /\ scatter_msg = << >>
    /\ arrived = {}
    /\ reduced = {}
    /\ output_json = NoFile
    /\ writes = 0

\* ------------------------------------------------------------- the actions

\* A function without the entry for r.
Without(f, r) == [k \in DOMAIN f \ {r} |-> f[k]]

\* Lines 19-27, rank 0: read input.bin.
ReadInput ==
    /\ pc[ROOT] = "read"
    /\ total_count' = [total_count EXCEPT ![ROOT] = ElementCount(input_bin)]
    /\ data' = [data EXCEPT ![ROOT] = ReadWords(input_bin, total_count'[ROOT])]
    /\ pc' = [pc EXCEPT ![ROOT] = "bcast"]
    /\ UNCHANGED << size, input_bin, local_n, local_data, idx, local_hist,
                    global_hist, bcast_msg, scatter_msg, arrived, reduced,
                    output_json, writes >>

\* Lines 29-32 at the root: MPI_Bcast sends total_count to every other
\* rank and returns; then local_n and the receive buffer.
BcastRoot ==
    /\ pc[ROOT] = "bcast"
    /\ bcast_msg' = [r \in Ranks \ {ROOT} |-> total_count[ROOT]]
    /\ local_n' = [local_n EXCEPT ![ROOT] = LocalN(total_count[ROOT], size)]
    /\ local_data' = [local_data EXCEPT ![ROOT] = ZeroVec(local_n'[ROOT])]
    /\ pc' = [pc EXCEPT ![ROOT] = "scatter"]
    /\ UNCHANGED << size, input_bin, total_count, data, idx, local_hist,
                    global_hist, scatter_msg, arrived, reduced, output_json,
                    writes >>

\* BcastRecv that leaves total_count as the rank had it.
BcastRecvStale(r) ==
    /\ r # ROOT
    /\ pc[r] = "bcast"
    /\ r \in DOMAIN bcast_msg
    /\ bcast_msg' = Without(bcast_msg, r)
    /\ local_n' = [local_n EXCEPT ![r] = LocalN(total_count[r], size)]
    /\ local_data' = [local_data EXCEPT ![r] = ZeroVec(local_n'[r])]
    /\ pc' = [pc EXCEPT ![r] = "scatter"]
    /\ UNCHANGED << size, input_bin, total_count, data, idx, local_hist,
                    global_hist, scatter_msg, arrived, reduced, output_json,
                    writes >>

\* Lines 29-32 at another rank: MPI_Bcast blocks until the root's value
\* is there; then local_n and the receive buffer.
BcastRecv(r) ==
    /\ r # ROOT
    /\ pc[r] = "bcast"
    /\ r \in DOMAIN bcast_msg
    /\ total_count' = [total_count EXCEPT ![r] = bcast_msg[r]]
    /\ bcast_msg' = Without(bcast_msg, r)
    /\ local_n' = [local_n EXCEPT ![r] = LocalN(total_count'[r], size)]
    /\ local_data' = [local_data EXCEPT ![r] = ZeroVec(local_n'[r])]
    /\ pc' = [pc EXCEPT ![r] = "scatter"]
    /\ UNCHANGED << size, input_bin, data, idx, local_hist, global_hist,
                    scatter_msg, arrived, reduced, output_json, writes >>

\* Lines 34-38 at the root: MPI_Scatter sends block r of data to rank r,
\* copies block 0 into its own receive buffer and returns; then the
\* zeroed local histogram.
ScatterRoot ==
    /\ pc[ROOT] = "scatter"
    /\ scatter_msg' = [r \in Ranks \ {ROOT} |->
                          ScatterBlock(data[ROOT], r, local_n[ROOT])]
    /\ local_data' = [local_data EXCEPT ![ROOT] =
                          RecvInto(@, ScatterBlock(data[ROOT], ROOT, local_n[ROOT]))]
    /\ local_hist' = [local_hist EXCEPT ![ROOT] = ZeroHist]
    /\ pc' = [pc EXCEPT ![ROOT] = "count"]
    /\ UNCHANGED << size, input_bin, total_count, data, local_n, idx,
                    global_hist, bcast_msg, arrived, reduced, output_json,
                    writes >>

\* Lines 34-38 at another rank: MPI_Scatter blocks until the rank's block
\* is there; then the zeroed local histogram.
ScatterRecv(r) ==
    /\ r # ROOT
    /\ pc[r] = "scatter"
    /\ r \in DOMAIN scatter_msg
    /\ Len(scatter_msg[r]) <= local_n[r]
    /\ local_data' = [local_data EXCEPT ![r] = RecvInto(@, scatter_msg[r])]
    /\ scatter_msg' = Without(scatter_msg, r)
    /\ local_hist' = [local_hist EXCEPT ![r] = ZeroHist]
    /\ pc' = [pc EXCEPT ![r] = "count"]
    /\ UNCHANGED << size, input_bin, total_count, data, local_n, idx,
                    global_hist, bcast_msg, arrived, reduced, output_json,
                    writes >>

\* CountStep that counts into the histogram of rank 0, one histogram
\* being shared by all ranks.
CountStepShared(r) ==
    /\ pc[r] = "count"
    /\ idx[r] < Len(local_data[r])
    /\ \E h \in CountOutcomes(local_hist[ROOT], local_data[r][idx[r] + 1]) :
          local_hist' = [local_hist EXCEPT ![ROOT] = h]
    /\ idx' = [idx EXCEPT ![r] = @ + 1]
    /\ UNCHANGED << size, input_bin, pc, total_count, data, local_n,
                    local_data, global_hist, bcast_msg, scatter_msg, arrived,
                    reduced, output_json, writes >>

\* Lines 39-41: one iteration of the counting loop at rank r.
CountStep(r) ==
    /\ pc[r] = "count"
    /\ idx[r] < Len(local_data[r])
    /\ \E h \in CountOutcomes(local_hist[r], local_data[r][idx[r] + 1]) :
          local_hist' = [local_hist EXCEPT ![r] = h]
    /\ idx' = [idx EXCEPT ![r] = @ + 1]
    /\ UNCHANGED << size, input_bin, pc, total_count, data, local_n,
                    local_data, global_hist, bcast_msg, scatter_msg, arrived,
                    reduced, output_json, writes >>

\* Lines 43-48 at the root, the loop being over: global_hist is resized
\* and zeroed, and MPI_Reduce takes the root's own send buffer.
ReduceRoot ==
    /\ pc[ROOT] = "count"
    /\ idx[ROOT] = Len(local_data[ROOT])
    /\ global_hist' = [global_hist EXCEPT ![ROOT] = ZeroHist]
    /\ arrived' = arrived \cup {ROOT}
    /\ pc' = [pc EXCEPT ![ROOT] = "reduce"]
    /\ UNCHANGED << size, input_bin, total_count, data, local_n, local_data,
                    idx, local_hist, bcast_msg, scatter_msg, reduced,
                    output_json, writes >>

\* ReduceSend whose contribution never reaches the root.
ReduceSendLost(r) ==
    /\ r # ROOT
    /\ pc[r] = "count"
    /\ idx[r] = Len(local_data[r])
    /\ pc' = [pc EXCEPT ![r] = "finalize"]
    /\ UNCHANGED << size, input_bin, total_count, data, local_n, local_data,
                    idx, local_hist, global_hist, bcast_msg, scatter_msg,
                    arrived, reduced, output_json, writes >>

\* Lines 43-48 at another rank, the loop being over: MPI_Reduce sends
\* local_hist and returns; local_hist is not written again.
ReduceSend(r) ==
    /\ r # ROOT
    /\ pc[r] = "count"
    /\ idx[r] = Len(local_data[r])
    /\ arrived' = arrived \cup {r}
    /\ pc' = [pc EXCEPT ![r] = "finalize"]
    /\ UNCHANGED << size, input_bin, total_count, data, local_n, local_data,
                    idx, local_hist, global_hist, bcast_msg, scatter_msg,
                    reduced, output_json, writes >>

\* Lines 46-48 inside the root's MPI_Reduce: one contribution that has
\* arrived is summed into the receive buffer, in whatever order they come.
ReduceCombine(r) ==
    /\ pc[ROOT] = "reduce"
    /\ r \in arrived \ reduced
    /\ \E h \in ReduceOutcomes(global_hist[ROOT], local_hist[r]) :
          global_hist' = [global_hist EXCEPT ![ROOT] = h]
    /\ reduced' = reduced \cup {r}
    /\ UNCHANGED << size, input_bin, pc, total_count, data, local_n,
                    local_data, idx, local_hist, bcast_msg, scatter_msg,
                    arrived, output_json, writes >>

\* ReduceComplete that waits for the root's own contribution only.
ReduceCompleteOwn == ROOT \in reduced

\* Lines 46-48: the root's MPI_Reduce has the contribution of every rank
\* of the communicator.
ReduceComplete == reduced = Ranks

\* Lines 46-50: the root's MPI_Reduce returns.
ReduceReturn ==
    /\ pc[ROOT] = "reduce"
    /\ ReduceComplete
    /\ pc' = [pc EXCEPT ![ROOT] = "emit"]
    /\ UNCHANGED << size, input_bin, total_count, data, local_n, local_data,
                    idx, local_hist, global_hist, bcast_msg, scatter_msg,
                    arrived, reduced, output_json, writes >>

\* Lines 50-63, rank 0: write output.json.
WriteOutput ==
    /\ pc[ROOT] = "emit"
    /\ output_json' = EmitText(global_hist[ROOT])
    /\ writes' = writes + 1
    /\ pc' = [pc EXCEPT ![ROOT] = "finalize"]
    /\ UNCHANGED << size, input_bin, total_count, data, local_n, local_data,
                    idx, local_hist, global_hist, bcast_msg, scatter_msg,
                    arrived, reduced >>

\* Finalize that a rank may also take from the end of its counting loop,
\* without calling MPI_Reduce.
FinalizeEarly(r) ==
    /\ \/ pc[r] = "finalize"
       \/ pc[r] = "count" /\ idx[r] = Len(local_data[r])
    /\ pc' = [pc EXCEPT ![r] = "done"]
    /\ UNCHANGED << size, input_bin, total_count, data, local_n, local_data,
                    idx, local_hist, global_hist, bcast_msg, scatter_msg,
                    arrived, reduced, output_json, writes >>

\* Lines 65-66: MPI_Finalize and return.
Finalize(r) ==
    /\ pc[r] = "finalize"
    /\ pc' = [pc EXCEPT ![r] = "done"]
    /\ UNCHANGED << size, input_bin, total_count, data, local_n, local_data,
                    idx, local_hist, global_hist, bcast_msg, scatter_msg,
                    arrived, reduced, output_json, writes >>

Next ==
    \/ ReadInput
    \/ BcastRoot
    \/ \E r \in Ranks : BcastRecv(r)
    \/ ScatterRoot
    \/ \E r \in Ranks : ScatterRecv(r)
    \/ \E r \in Ranks : CountStep(r)
    \/ ReduceRoot
    \/ \E r \in Ranks : ReduceSend(r)
    \/ \E r \in Ranks : ReduceCombine(r)
    \/ ReduceReturn
    \/ WriteOutput
    \/ \E r \in Ranks : Finalize(r)

Spec == Init /\ [][Next]_vars

\* ------------------------------------------------- what the claims speak of

\* Every rank has returned from main.
Terminated == \A r \in Ranks : pc[r] = "done"

\* The root's MPI_Reduce has returned.
ReduceDone == pc[ROOT] \in {"emit", "finalize", "done"}

\* Rank r has left the scatter.
Scattered(r) == pc[r] \in {"count", "reduce", "emit", "finalize", "done"}

\* output.json has been written.
Written == writes > 0

\* Some rank can take its next step.  (WriteOutput waits for nothing: it
\* can be taken whenever the root stands at line 50.)
CanStep ==
    \/ pc[ROOT] = "emit"
    \/ ENABLED \/ ReadInput
               \/ BcastRoot
               \/ ScatterRoot
               \/ ReduceRoot
               \/ ReduceReturn
               \/ \E r \in Ranks : \/ BcastRecv(r)
                                   \/ ScatterRecv(r)
                                   \/ CountStep(r)
                                   \/ ReduceSend(r)
                                   \/ ReduceCombine(r)
                                   \/ Finalize(r)

\* The number of elements of the stream S equal to b.
CountOf(S, b) == Cardinality({i \in DOMAIN S : S[i] = b})

\* The number of elements of the stream S that are < 1024.
InRange(S) == Cardinality({i \in DOMAIN S : S[i] < MAXVAL})

\* The elements of S that W slices of length |S| div W cover.
Covered(S, W) == SubSeq(S, 1, W * (Len(S) \div W))

\* One pass of the counting loop of lines 38-41 over the whole of S.
RECURSIVE DirectHistogram(_)
DirectHistogram(S) ==
    IF S = << >> THEN ZeroHist
    ELSE CHOOSE h \in CountOutcomes(DirectHistogram(SubSeq(S, 1, Len(S) - 1)),
                                    S[Len(S)]) : TRUE

\* The int vectors g and h agree in every bucket 0 .. 1023 (the buckets
\* outside both nz are 0 in both).
SameCounts(g, h) ==
    /\ DOMAIN g.nz \cup DOMAIN h.nz \subseteq Buckets
    /\ \A b \in DOMAIN g.nz \cup DOMAIN h.nz : At(g, b) = At(h, b)

\* The sum of counter b of the local histograms of ranks 0 .. r.
RECURSIVE LocalSum(_, _)
LocalSum(b, r) == IF r < 0 THEN 0 ELSE At(local_hist[r], b) + LocalSum(b, r - 1)

\* How many counting iterations ranks 0 .. r have run.
RECURSIVE Counted(_)
Counted(r) == IF r < 0 THEN 0 ELSE idx[r] + Counted(r - 1)

\* ---- reading output.json back

\* The first position of the character c in s, or Len(s) + 1.
FirstIndex(s, c) ==
    IF \E k \in 1 .. Len(s) : s[k] = c
        THEN CHOOSE k \in 1 .. Len(s) :
                 s[k] = c /\ \A j \in 1 .. (k - 1) : s[j] # c
        ELSE Len(s) + 1

\* The pieces of s between the occurrences of the character c.
RECURSIVE SplitOn(_, _)
SplitOn(s, c) ==
    IF s = << >> THEN << >>
    ELSE LET k == FirstIndex(s, c)
         IN  IF k > Len(s) THEN << s >>
             ELSE IF k = Len(s) THEN << SubSeq(s, 1, k - 1), << >> >>
             ELSE << SubSeq(s, 1, k - 1) >> \o SplitOn(SubSeq(s, k + 1, Len(s)), c)

IsDigit(c) == \E d \in 1 .. 10 : Digits[d] = c

DigitValue(c) == (CHOOSE d \in 1 .. 10 : Digits[d] = c) - 1

\* The number a digit string denotes; -1 for anything else.
RECURSIVE ParseNat(_)
ParseNat(ds) ==
    IF ds = << >> \/ \E k \in 1 .. Len(ds) : ~IsDigit(ds[k]) THEN -1
    ELSE IF Len(ds) = 1 THEN DigitValue(ds[1])
    ELSE 10 * ParseNat(SubSeq(ds, 1, Len(ds) - 1)) + DigitValue(ds[Len(ds)])

\* The entry "key":val that the piece p spells; key and val are -1 where
\* p does not spell one.
ParseEntry(p) ==
    LET c == FirstIndex(p, ":")
    IN  IF Len(p) >= 5 /\ c >= 4 /\ c < Len(p) /\ p[1] = "\"" /\ p[c - 1] = "\""
            THEN [key |-> ParseNat(SubSeq(p, 2, c - 2)),
                  val |-> ParseNat(SubSeq(p, c + 1, Len(p)))]
            ELSE [key |-> -1, val |-> -1]

\* The entries of the object a text spells, in the order of the text: what
\* stands between its first character and its last two, split at commas.
ParseOutput(text) ==
    LET body   == IF Len(text) >= 3 THEN SubSeq(text, 2, Len(text) - 2) ELSE << >>
        pieces == SplitOn(body, ",")
    IN  [k \in 1 .. Len(pieces) |-> ParseEntry(pieces[k])]

\* The canonical text of the entries e: {"k":v,"k":v} and a newline.
RECURSIVE RenderEntries(_)
RenderEntries(e) ==
    IF e = << >> THEN << >>
    ELSE (IF Len(e) > 1 THEN RenderEntries(SubSeq(e, 1, Len(e) - 1)) \o << "," >>
          ELSE << >>)
         \o << "\"" >> \o ToDecimal(e[Len(e)].key) \o << "\"", ":" >>
         \o ToDecimal(e[Len(e)].val)

Render(e) == << "{" >> \o RenderEntries(e) \o << "}", "\n" >>

\* The sum of the values of the entries e.
RECURSIVE SumVals(_)
SumVals(e) == IF e = << >> THEN 0 ELSE e[Len(e)].val + SumVals(SubSeq(e, 1, Len(e) - 1))

\* ------------------------------------------------------------------ claims

\* C1: when W divides |S| evenly, the counts written to output.json sum to
\* the number of elements of S that are < 1024.
C1_CountsSumToInRange ==
    (Written /\ Len(input_bin) % size = 0)
        => SumVals(ParseOutput(output_json)) = InRange(input_bin)

\* C1 witness: three ranks have counted a stream of three elements, one of
\* them out of range, and the output is written.
C1_Witness ==
    /\ Written
    /\ size = 3
    /\ Len(input_bin) = 3
    /\ \E i \in DOMAIN input_bin : input_bin[i] >= MAXVAL
    /\ InRange(input_bin) = 2

\* C2 as stated: for all S and W the element-wise sum of the W slice
\* histograms is, in every bucket, the histogram of S in one pass.
C2_SliceSumIsDirect ==
    ReduceDone => SameCounts(global_hist[ROOT], DirectHistogram(input_bin))

\* C2 amended: the element-wise sum of the W slice histograms is, in every
\* bucket, the one-pass histogram of the first W * (|S| div W) elements of
\* S, which is all of S when W divides |S|.
C2_SliceSumIsDirectOnCovered ==
    ReduceDone =>
        /\ SameCounts(global_hist[ROOT],
                      DirectHistogram(Covered(input_bin, size)))
        /\ (Len(input_bin) % size = 0 => Covered(input_bin, size) = input_bin)

\* C2 witness: the reduce is over for three ranks with one element each,
\* two of them in the same bucket.
C2_Witness ==
    /\ ReduceDone
    /\ size = 3
    /\ Len(input_bin) = 3
    /\ InRange(input_bin) >= 2
    /\ \E b \in Buckets : At(global_hist[ROOT], b) >= 2

\* The buckets 0 .. 1023 of the int vector h that are not 0.
NonZeroBuckets(h) == {b \in DOMAIN h.nz : b \in Buckets /\ h.nz[b] # 0}

\* The histogram of the stream S as a count of its elements: bucket b
\* holds the number of elements of S equal to b.
CountHist(S) ==
    MakeVec(MAXVAL, [b \in {S[i] : i \in DOMAIN S} \cap Buckets |-> CountOf(S, b)])

\* The slice of rank r: the stream positions [r * ln, (r + 1) * ln), with
\* ln = |S| div W.
SliceOf(S, W, r) ==
    SubSeq(S, r * (Len(S) \div W) + 1, (r + 1) * (Len(S) \div W))

\* C3: when N is not divisible by W, exactly W * (N div W) elements are
\* counted; the last N mod W elements are handed to no rank and are in no
\* local or global histogram; and the run goes on to its end.
C3_TailNeverCounted ==
    Len(input_bin) % size # 0 =>
        /\ \A r \in DOMAIN scatter_msg :
              scatter_msg[r] = SliceOf(input_bin, size, r)
        /\ \A r \in Ranks :
              Scattered(r) =>
                  /\ local_data[r] = SliceOf(input_bin, size, r)
                  /\ (idx[r] = Len(local_data[r]) =>
                         SameCounts(local_hist[r],
                                    CountHist(SliceOf(input_bin, size, r))))
        /\ Counted(size - 1) <= size * (Len(input_bin) \div size)
        /\ ReduceDone =>
              /\ Counted(size - 1) = size * (Len(input_bin) \div size)
              /\ SameCounts(global_hist[ROOT],
                            CountHist(Covered(input_bin, size)))
        /\ (~Terminated => CanStep)

\* C3 witness: two ranks have finished a stream of three elements whose
\* third element, alone in its bucket, is in no histogram.
C3_Witness ==
    /\ Terminated
    /\ Written
    /\ size = 2
    /\ Len(input_bin) = 3
    /\ input_bin[3] = 7
    /\ CountOf(input_bin, 7) = 1
    /\ Counted(size - 1) = 2
    /\ At(global_hist[ROOT], 7) = 0
    /\ \A r \in Ranks : At(local_hist[r], 7) = 0

\* Rank r runs one iteration of its counting loop in this step.
Counts(r) == pc[r] = "count" /\ idx'[r] = idx[r] + 1

\* C4: an iteration of the counting loop on the sample v adds one to
\* counter v and changes no other counter when v < 1024, and changes no
\* counter at all when v >= 1024.
C4_CountsExactlyInRange ==
    [][\A r \in Ranks :
          Counts(r) =>
              LET v == local_data[r][idx[r] + 1]
                  h == local_hist[r]
                  k == local_hist'[r]
              IN  /\ k.len = h.len
                  /\ DOMAIN h.nz \cup DOMAIN k.nz \subseteq Buckets
                  /\ v < MAXVAL => At(k, v) = At(h, v) + 1
                  /\ \A b \in (DOMAIN h.nz \cup DOMAIN k.nz) \ {v} :
                        At(k, b) = At(h, b)
                  /\ v >= MAXVAL => k = h]_vars

\* C4 witness: one rank has counted 1023 and 1024 and written the output
\* with the single key 1023.
C4_Witness ==
    /\ Terminated
    /\ size = 1
    /\ input_bin = << 1023, 1024 >>
    /\ NonZeroBuckets(global_hist[ROOT]) = {1023}
    /\ output_json = << "{", "\"", "1", "0", "2", "3", "\"", ":", "1", "}", "\n" >>

Commas(t) == Cardinality({k \in DOMAIN t : t[k] = ","})

\* C6: the text is an opening brace, the entries in strictly ascending
\* order of bucket index with one comma between consecutive entries and
\* none before the first or after the last, a closing brace and a newline.
C6_TextLayout ==
    Written =>
        LET e == ParseOutput(output_json)
        IN  /\ output_json = Render(e)
            /\ \A k \in DOMAIN e : e[k].key \in Buckets
            /\ \A k \in 1 .. (Len(e) - 1) : e[k].key < e[k + 1].key
            /\ Commas(output_json) = IF Len(e) = 0 THEN 0 ELSE Len(e) - 1
            /\ output_json[1] = "{"
            /\ output_json[Len(output_json) - 1] = "}"
            /\ output_json[Len(output_json)] = "\n"

\* C6 witness: a text of three entries.
C6_Witness ==
    /\ Written
    /\ Len(ParseOutput(output_json)) = 3
    /\ Commas(output_json) = 2

\* The text {} and a newline.
EmptyObject == << "{", "}", "\n" >>

\* C7: with an empty stream every rank goes on through the collectives to
\* its end and the coordinator writes {}; and an all-zero global
\* histogram is written as {}.
C7_EmptyObject ==
    /\ (Written /\ NonZeroBuckets(global_hist[ROOT]) = {})
           => output_json = EmptyObject
    /\ Len(input_bin) = 0 =>
           /\ ~Terminated => CanStep
           /\ Terminated => Written
           /\ Written => output_json = EmptyObject

\* C7 witness: three ranks have finished on the empty stream and the
\* output is {}.
C7_Witness ==
    /\ Terminated
    /\ size = 3
    /\ Len(input_bin) = 0
    /\ output_json = EmptyObject

\* The buckets that are not 0 at the root or at some rank; every other
\* bucket is 0 in the global and in every local histogram.
Touched ==
    DOMAIN global_hist[ROOT].nz \cup UNION {DOMAIN local_hist[r].nz : r \in Ranks}

\* C8: after the reduce, every counter of the global histogram is the sum
\* over all ranks, rank 0 included, of that counter of the local
\* histograms.
C8_GlobalIsSumOfLocals ==
    ReduceDone =>
        /\ Touched \subseteq Buckets
        /\ global_hist[ROOT].len = MAXVAL
        /\ \A b \in Touched : At(global_hist[ROOT], b) = LocalSum(b, size - 1)

\* C8 witness: three ranks each counted one element of the same bucket.
C8_Witness ==
    /\ ReduceDone
    /\ size = 3
    /\ \A r \in Ranks : At(local_hist[r], 7) = 1
    /\ At(global_hist[ROOT], 7) = 3

\* The entries key |-> b, val |-> h[b] of the non-zero buckets b of the
\* int vector h that lie in B, in ascending order of b.
RECURSIVE EntriesIn(_, _)
EntriesIn(h, B) ==
    IF B = {} THEN << >>
    ELSE LET top == CHOOSE b \in B : \A c \in B : c <= b
         IN  EntriesIn(h, B \ {top}) \o << [key |-> top, val |-> At(h, top)] >>

\* A text fixed by the file f and the number of ranks w alone: the
\* canonical text of the counts of the elements of f that w slices cover.
TextOf(f, w) ==
    LET h == CountHist(Covered(f, w))
    IN  Render(EntriesIn(h, NonZeroBuckets(h)))

\* C9: the text written is a function of the input file and of W: under
\* every interleaving of the ranks and every order of arrival at the
\* reduce, the run on the file f with w ranks writes TextOf(f, w).
C9_OutputIsFunctionOfInput ==
    Written => output_json = TextOf(input_bin, size)

\* C9 witness: the output is written from three ranks whose local
\* histograms differ pairwise.
C9_Witness ==
    /\ Written
    /\ size = 3
    /\ \A q, r \in Ranks : q # r => local_hist[q] # local_hist[r]
    /\ Len(ParseOutput(output_json)) = 3

\* C10: the coordinator is past the reduce, and the output is written,
\* only when every rank has counted its whole slice, entered the reduce
\* and had its local histogram summed in.
C10_OutputOnlyAfterReduce ==
    (ReduceDone \/ Written) =>
        \A r \in Ranks :
            /\ pc[r] \in {"reduce", "emit", "finalize", "done"}
            /\ idx[r] = local_n[r]
            /\ idx[r] = Len(local_data[r])
            /\ r \in arrived
            /\ r \in reduced

\* C10 witness: the output is written while another rank, which counted a
\* slice of one element, has entered the reduce and not yet finalized.
C10_Witness ==
    /\ Written
    /\ size = 3
    /\ local_n[ROOT] = 1
    /\ \E r \in Ranks \ {ROOT} : pc[r] = "finalize" /\ idx[r] = 1

\* ---- C11

\* Rank r has not left the scatter although the root has performed the
\* split: its block is on its way.
InFlight(r) == Scattered(ROOT) /\ ~Scattered(r)

\* C11, as stated: the scatter is a barrier; no rank has left it before
\* the coordinator has performed the split and every one of the W ranks
\* has received its slice.
C11_ScatterIsBarrier ==
    \A r \in Ranks : Scattered(r) => \A q \in Ranks : Scattered(q)

\* C11, as the code has it: no rank leaves the scatter before the
\* coordinator has performed the split, and a rank that leaves it holds
\* its own slice; the slice of a rank that has not left yet is on its way
\* to it, so a rank may start counting while others have not received.
C11_ScatterWaitsForSplit ==
    \A r \in Ranks :
        /\ Scattered(r) =>
              /\ Scattered(ROOT)
              /\ local_data[r] = SliceOf(input_bin, size, r)
              /\ r \notin DOMAIN scatter_msg
        /\ InFlight(r) =>
              /\ r \in DOMAIN scatter_msg
              /\ scatter_msg[r] = SliceOf(input_bin, size, r)

\* A rank is counting its slice, the coordinator too, while another rank
\* has not yet entered the scatter.
C11_Witness ==
    /\ size = 3
    /\ Len(input_bin) = 3
    /\ pc[ROOT] = "count"
    /\ pc[1] = "count" /\ idx[1] = 1
    /\ pc[2] = "bcast"

\* ---- C12

\* Rank r is inside MPI_Bcast and cannot leave it: the coordinator's value
\* has not been sent.
WaitsInBcast(r) == r # ROOT /\ pc[r] = "bcast" /\ r \notin DOMAIN bcast_msg

\* The steps of main that rank r takes, as pairs of positions: the
\* coordinator reads, then every rank goes through MPI_Bcast, MPI_Scatter,
\* the counting loop and MPI_Reduce, the coordinator writes, and every
\* rank finalizes.
CallOrder(r) ==
    IF r = ROOT
        THEN {<< "read", "bcast" >>, << "bcast", "scatter" >>,
              << "scatter", "count" >>, << "count", "reduce" >>,
              << "reduce", "emit" >>, << "emit", "finalize" >>,
              << "finalize", "done" >>}
        ELSE {<< "bcast", "scatter" >>, << "scatter", "count" >>,
              << "count", "finalize" >>, << "finalize", "done" >>}

\* Rank r, outside the collectives, has a step it can take.
FreeToStep(r) ==
    /\ pc[r] = "read" => ENABLED ReadInput
    /\ pc[r] = "count" => ENABLED (CountStep(r) \/ ReduceRoot \/ ReduceSend(r))
    /\ pc[r] = "finalize" => ENABLED Finalize(r)

RankStep(r) ==
    /\ r \in Ranks
    /\ \/ r = ROOT /\ (ReadInput \/ BcastRoot \/ ScatterRoot \/ ReduceRoot
                        \/ ReduceReturn \/ WriteOutput
                        \/ \E q \in Ranks : ReduceCombine(q))
       \/ BcastRecv(r)
       \/ ScatterRecv(r)
       \/ CountStep(r)
       \/ ReduceSend(r)
       \/ Finalize(r)

\* The launcher starts the W ranks together and every rank that can step
\* eventually does: no rank fails or is starved.
FairSpec == Spec /\ \A r \in 0 .. (MaxW - 1) : WF_vars(RankStep(r))

\* C13: the W ranks being launched together, every rank scheduled fairly
\* and none failing, every run comes to its end, where it stays: every
\* rank has returned, the coordinator has written output.json exactly
\* once, and no step of a worker has written it.
C13_EveryRunTerminates ==
    /\ <>[](Terminated /\ writes = 1)
    /\ [](writes <= 1)
    /\ [][writes' # writes => pc[ROOT] = "emit" /\ pc'[ROOT] = "finalize"]_vars

\* Three ranks have returned from a run on a file that left a tail.
C13_Witness ==
    /\ Terminated
    /\ size = 3
    /\ Len(input_bin) = 2
    /\ writes = 1

\* ------------------------------------------------ runs on long streams
\*
\* The counters and total_count reach the ends of their ranges only on
\* streams of some 2^31 words, and on the count that line 21 computes when
\* input.bin did not open. Such a run is followed with every vector of
\* uint32_t held by its length and the one value all its elements have
\* (the file is n copies of v; a vector that was only value-initialized is
\* all zeros), and with the counting loop taken in one step. A uint32_t is
\* held as the integer with the same 32 bits in two's complement: u below
\* 2^31, u - 2^32 from 2^31 on.

\* The uint32_t whose 16-bit halves are hi and lo.
U32(hi, lo) ==
    IF hi < 2 ^ 15 THEN hi * 2 ^ 16 + lo ELSE (hi - 2 ^ 16) * 2 ^ 16 + lo

\* The 64 bits of a size_t, as four 16-bit limbs, the most significant
\* first, divided by the small number d: the remainder carried into limb i.
RECURSIVE Carry(_, _, _)
Carry(l, d, i) ==
    IF i = 0 THEN 0 ELSE (Carry(l, d, i - 1) * 2 ^ 16 + l[i]) % d

\* The quotient of the limbs l by d.
DivLimbs(l, d) ==
    [i \in 1 .. 4 |-> (Carry(l, d, i - 1) * 2 ^ 16 + l[i]) \div d]

\* Line 21 on a stream that did not open: tellg() is -1; the division by
\* sizeof(uint32_t) is done in size_t, where -1 is all ones; the quotient
\* is cut to the 32 bits of total_count.
FailedElementCount ==
    LET all_ones == [i \in 1 .. 4 |-> 2 ^ 16 - 1]
        q == DivLimbs(all_ones, SIZEOF_UINT32)
    IN  U32(q[3], q[4])

\* n elements, each v.
Rep(n, v) == [n |-> n, v |-> v]

\* input.bin holding n words, each v; and input.bin absent.
BulkFile(n, v) == [exists |-> TRUE, n |-> n, v |-> v]
NoInputFile == [exists |-> FALSE]

\* Line 36, the count argument of MPI_Scatter: local_n converted to int.
\* From 2^31 on the int is negative, which MPI refuses.
CountArgValid(ln) == ln >= 0

\* BulkCountOutcomes with 16-bit counters.
BulkCountOutcomesShort(hist, v, k) ==
    IF v < MAXVAL THEN {Put(hist, v, (At(hist, v) + k) % 2 ^ 16)} ELSE {hist}

\* Lines 39-41, k iterations on the sample v: k increments of counter v
\* when v < MAXVAL. Past INT_MAX the increments overflow, which is
\* undefined: the counter wraps, or stays where it was.
BulkCountOutcomes(hist, v, k) ==
    IF v >= MAXVAL THEN {hist}
    ELSE IF AddFits(At(hist, v), k) THEN {Put(hist, v, At(hist, v) + k)}
    ELSE {Put(hist, v, WrapAdd(At(hist, v), k)), Put(hist, v, INT_MAX)}

\* The lengths in words of the long files: 2^30, 2^31 - 1, 2^31, 2^32 - 2
\* and 2^32 - 1, the most that total_count holds.
BulkCounts == {2 ^ 30, INT_MAX, INT_MIN, -2, -1}

\* The value of the words of a long file: one in range, one out of range.
BulkValues == {7, MAXVAL}

\* The state after MPI_Init and lines 16-17, on a long file or on none.
BulkInit ==
    /\ size \in 1 .. MaxW
    /\ input_bin \in {NoInputFile}
                     \cup {BulkFile(n, v) : n \in BulkCounts, v \in BulkValues}
    /\ pc = [r \in Ranks |-> IF r = ROOT THEN "read" ELSE "bcast"]
    /\ total_count = [r \in Ranks |-> 0]
    /\ data = [r \in Ranks |-> Rep(0, 0)]
    /\ local_n = [r \in Ranks |-> 0]
    /\ local_data = [r \in Ranks |-> Rep(0, 0)]
    /\ idx = [r \in Ranks |-> 0]
    /\ local_hist = [r \in Ranks |-> IntVec(0)]
    /\ global_hist = [r \in Ranks |-> IntVec(0)]
    /\ bcast_msg = << >>
    /\ scatter_msg = << >>
    /\ arrived = {}
    /\ reduced = {}
    /\ output_json = NoFile
    /\ writes = 0

\* Lines 19-27, rank 0. No statement tests whether the stream opened.
\* data.resize either throws std::bad_alloc, which nothing catches, so
\* that rank 0 is aborted, or gives total_count zeros; fin.read then fills
\* them from the file, or reads nothing from a stream that did not open.
BulkRead ==
    /\ pc[ROOT] = "read"
    /\ total_count' = [total_count EXCEPT ![ROOT] =
                          IF input_bin.exists THEN input_bin.n
                          ELSE FailedElementCount]
    /\ \/ /\ data' = [data EXCEPT ![ROOT] =
                         Rep(total_count'[ROOT],
                             IF input_bin.exists THEN input_bin.v ELSE 0)]
          /\ pc' = [pc EXCEPT ![ROOT] = "bcast"]
       \/ /\ data' = data
          /\ pc' = [pc EXCEPT ![ROOT] = "aborted"]
    /\ UNCHANGED << size, input_bin, local_n, local_data, idx, local_hist,
                    global_hist, bcast_msg, scatter_msg, arrived, reduced,
                    output_json, writes >>

\* Lines 29-32 at the root: MPI_Bcast sends total_count and returns; then
\* local_n, and the receive buffer, whose allocation may throw.
BulkBcastRoot ==
    /\ pc[ROOT] = "bcast"
    /\ bcast_msg' = [r \in Ranks \ {ROOT} |-> total_count[ROOT]]
    /\ local_n' = [local_n EXCEPT ![ROOT] = LocalN(total_count[ROOT], size)]
    /\ \/ /\ local_data' = [local_data EXCEPT ![ROOT] = Rep(local_n'[ROOT], 0)]
          /\ pc' = [pc EXCEPT ![ROOT] = "scatter"]
       \/ /\ local_data' = local_data
          /\ pc' = [pc EXCEPT ![ROOT] = "aborted"]
    /\ UNCHANGED << size, input_bin, total_count, data, idx, local_hist,
                    global_hist, scatter_msg, arrived, reduced, output_json,
                    writes >>

\* Lines 29-32 at another rank.
BulkBcastRecv(r) ==
    /\ r # ROOT
    /\ pc[r] = "bcast"
    /\ r \in DOMAIN bcast_msg
    /\ total_count' = [total_count EXCEPT ![r] = bcast_msg[r]]
    /\ bcast_msg' = Without(bcast_msg, r)
    /\ local_n' = [local_n EXCEPT ![r] = LocalN(total_count'[r], size)]
    /\ \/ /\ local_data' = [local_data EXCEPT ![r] = Rep(local_n'[r], 0)]
          /\ pc' = [pc EXCEPT ![r] = "scatter"]
       \/ /\ local_data' = local_data
          /\ pc' = [pc EXCEPT ![r] = "aborted"]
    /\ UNCHANGED << size, input_bin, data, idx, local_hist, global_hist,
                    scatter_msg, arrived, reduced, output_json, writes >>

\* Lines 34-38 at the root. A count that is negative as an int is an
\* error of class MPI_ERR_COUNT, and errors are fatal on MPI_COMM_WORLD;
\* otherwise as ScatterRoot, every block being local_n copies of the value
\* of data.
BulkScatterRoot ==
    /\ pc[ROOT] = "scatter"
    /\ \/ /\ CountArgValid(local_n[ROOT])
          /\ scatter_msg' = [r \in Ranks \ {ROOT} |->
                                Rep(local_n[ROOT], data[ROOT].v)]
          /\ local_data' = [local_data EXCEPT ![ROOT] =
                                Rep(local_n[ROOT], data[ROOT].v)]
          /\ local_hist' = [local_hist EXCEPT ![ROOT] = ZeroHist]
          /\ pc' = [pc EXCEPT ![ROOT] = "count"]
       \/ /\ ~CountArgValid(local_n[ROOT])
          /\ pc' = [pc EXCEPT ![ROOT] = "aborted"]
          /\ UNCHANGED << scatter_msg, local_data, local_hist >>
    /\ UNCHANGED << size, input_bin, total_count, data, local_n, idx,
                    global_hist, bcast_msg, arrived, reduced, output_json,
                    writes >>

\* Lines 34-38 at another rank.
BulkScatterRecv(r) ==
    /\ r # ROOT
    /\ pc[r] = "scatter"
    /\ r \in DOMAIN scatter_msg
    /\ scatter_msg[r].n <= local_n[r]
    /\ local_data' = [local_data EXCEPT ![r] = scatter_msg[r]]
    /\ scatter_msg' = Without(scatter_msg, r)
    /\ local_hist' = [local_hist EXCEPT ![r] = ZeroHist]
    /\ pc' = [pc EXCEPT ![r] = "count"]
    /\ UNCHANGED << size, input_bin, total_count, data, local_n, idx,
                    global_hist, bcast_msg, arrived, reduced, output_json,
                    writes >>

\* Lines 39-41: the whole counting loop at rank r, whose samples are all
\* the same.
BulkCount(r) ==
    /\ pc[r] = "count"
    /\ idx[r] < local_data[r].n
    /\ \E h \in BulkCountOutcomes(local_hist[r], local_data[r].v,
                                   local_data[r].n - idx[r]) :
          local_hist' = [local_hist EXCEPT ![r] = h]
    /\ idx' = [idx EXCEPT ![r] = local_data[r].n]
    /\ UNCHANGED << size, input_bin, pc, total_count, data, local_n,
                    local_data, global_hist, bcast_msg, scatter_msg, arrived,
                    reduced, output_json, writes >>

\* Lines 43-48 at the root, the loop being over.
BulkReduceRoot ==
    /\ pc[ROOT] = "count"
    /\ idx[ROOT] = local_data[ROOT].n
    /\ global_hist' = [global_hist EXCEPT ![ROOT] = ZeroHist]
    /\ arrived' = arrived \cup {ROOT}
    /\ pc' = [pc EXCEPT ![ROOT] = "reduce"]
    /\ UNCHANGED << size, input_bin, total_count, data, local_n, local_data,
                    idx, local_hist, bcast_msg, scatter_msg, reduced,
                    output_json, writes >>

\* Lines 43-48 at another rank, the loop being over.
BulkReduceSend(r) ==
    /\ r # ROOT
    /\ pc[r] = "count"
    /\ idx[r] = local_data[r].n
    /\ arrived' = arrived \cup {r}
    /\ pc' = [pc EXCEPT ![r] = "finalize"]
    /\ UNCHANGED << size, input_bin, total_count, data, local_n, local_data,
                    idx, local_hist, global_hist, bcast_msg, scatter_msg,
                    reduced, output_json, writes >>

BulkNext ==
    \/ BulkRead
    \/ BulkBcastRoot
    \/ \E r \in Ranks : BulkBcastRecv(r)
    \/ BulkScatterRoot
    \/ \E r \in Ranks : BulkScatterRecv(r)
    \/ \E r \in Ranks : BulkCount(r)
    \/ BulkReduceRoot
    \/ \E r \in Ranks : BulkReduceSend(r)
    \/ \E r \in Ranks : ReduceCombine(r)
    \/ ReduceReturn
    \/ WriteOutput
    \/ \E r \in Ranks : Finalize(r)

BulkSpec == BulkInit /\ [][BulkNext]_vars

\* ---- C14

\* C14, as stated: when input.bin cannot be opened, rank 0 aborts before
\* the distribution: it does not perform the scatter, takes part in no
\* later collective, and output.json is never written.
C14_MissingFileIsFatal ==
    ~input_bin.exists =>
        /\ pc[ROOT] \in {"read", "bcast", "scatter", "aborted"}
        /\ scatter_msg = << >>
        /\ arrived = {}
        /\ writes = 0

\* ---- C15

\* The step taken is a step of rank r and of no other rank.
OwnStep(r) ==
    /\ pc'[r] # pc[r] \/ idx'[r] # idx[r]
    /\ \A q \in Ranks \ {r} : pc'[q] = pc[q] /\ idx'[q] = idx[q]

\* C15: only rank 0 reads input.bin, holds the stream, receives the
\* reduced histogram and writes output.json; every block of the scatter is
\* taken from rank 0's stream; and a rank's slice and local histogram are
\* changed by steps of that rank alone.
C15_OnlyRootAndOwnWrites ==
    /\ [](/\ \A r \in Ranks \ {ROOT} :
                data[r] = EmptyVec /\ total_count[r] \in {0, Len(input_bin)}
                    /\ global_hist[r] = IntVec(0)
          /\ \A r \in DOMAIN scatter_msg :
                scatter_msg[r] = ScatterBlock(data[ROOT], r, local_n[ROOT]))
    /\ [][/\ input_bin' = input_bin
          /\ data' # data => pc[ROOT] = "read" /\ OwnStep(ROOT)
          /\ (output_json' # output_json \/ writes' # writes \/
                 global_hist' # global_hist)
                => pc[ROOT] \in {"count", "reduce", "emit"} /\
                   (OwnStep(ROOT) \/ reduced' # reduced)
          /\ \A r \in Ranks :
                (local_hist'[r] # local_hist[r] \/ local_data'[r] # local_data[r])
                    => OwnStep(r)]_vars

\* A worker has counted a sample into its own histogram; the
\* coordinator's histogram and the other worker's are still all zero.
C15_Witness ==
    /\ size = 3
    /\ idx = (0 :> 0 @@ 1 :> 1 @@ 2 :> 0)
    /\ NonZeroBuckets(local_hist[1]) = {7}
    /\ local_hist[ROOT] = ZeroHist
    /\ local_hist[2] = ZeroHist

\* ---- C16

\* The slices of ranks 0 .. r, one after the other.
RECURSIVE SlicesUpTo(_)
SlicesUpTo(r) == IF r < 0 THEN << >> ELSE SlicesUpTo(r - 1) \o local_data[r]

RECURSIVE Binary(_, _)
Binary(v, n) ==
    IF n = 0 THEN << >>
    ELSE Binary(v \div 2, n - 1) \o << IF v % 2 = 1 THEN "1" ELSE "0" >>

\* The bitstrings a job may return.
SampleBitstrings == {Binary(v, BITLEN) : v \in {u \in SampleValues : u < MAXVAL}}

\* sampler_test.cpp line 144: std::stoul(b, nullptr, 2).
RECURSIVE Stoul2(_)
Stoul2(b) ==
    IF b = << >> THEN 0
    ELSE 2 * Stoul2(SubSeq(b, 1, Len(b) - 1))
             + (IF b[Len(b)] = "1" THEN 1 ELSE 0)

\* The four bytes of the uint32_t v in memory, in the order of the
\* machine that runs both programs (the least significant first).
BytesOf(v) ==
    [k \in 1 .. SIZEOF_UINT32 |-> (v \div (256 ^ (k - 1))) % 256]

\* The bytes of the elements of d, one element after the other.
RECURSIVE MemoryOf(_)
MemoryOf(d) ==
    IF d = << >> THEN << >>
    ELSE MemoryOf(SubSeq(d, 1, Len(d) - 1)) \o BytesOf(d[Len(d)])

\* FileBytes that writes data.size() bytes.
FileBytesUnscaled(d) == SubSeq(MemoryOf(d), 1, Len(d))

\* sampler_test.cpp lines 149-152: the bytes written to input.bin, the
\* first data.size() * sizeof(uint32_t) bytes at data.data().
FileBytes(d) == SubSeq(MemoryOf(d), 1, Len(d) * SIZEOF_UINT32)

\* The whole words of a file of the bytes b, as the model holds a file.
WordsOf(b) ==
    [k \in 1 .. (Len(b) \div SIZEOF_UINT32) |->
        LET at == SIZEOF_UINT32 * (k - 1)
        IN  b[at + 1] + 256 * b[at + 2] + 256 ^ 2 * b[at + 3]
                + 256 ^ 3 * b[at + 4]]

\* The state of sampler_test after MPI_Init and its lines 97-98; no
\* input.bin is there yet.
SamplerInit ==
    /\ size \in 1 .. MaxW
    /\ input_bin = NoFile
    /\ pc = [r \in Ranks |-> IF r = ROOT THEN "sample" ELSE "bcast"]
    /\ total_count = [r \in Ranks |-> 0]
    /\ data = [r \in Ranks |-> EmptyVec]
    /\ local_n = [r \in Ranks |-> 0]
    /\ local_data = [r \in Ranks |-> EmptyVec]
    /\ idx = [r \in Ranks |-> 0]
    /\ local_hist = [r \in Ranks |-> IntVec(0)]
    /\ global_hist = [r \in Ranks |-> IntVec(0)]
    /\ bcast_msg = << >>
    /\ scatter_msg = << >>
    /\ arrived = {}
    /\ reduced = {}
    /\ output_json = NoFile
    /\ writes = 0

\* SamplerNull that tells the other ranks that there are no samples
\* before it returns.
SamplerNullTold ==
    /\ pc[ROOT] = "sample"
    /\ pc' = [pc EXCEPT ![ROOT] = "returned"]
    /\ bcast_msg' = [r \in Ranks \ {ROOT} |-> 0]
    /\ UNCHANGED << size, input_bin, total_count, data, local_n, local_data,
                    idx, local_hist, global_hist, scatter_msg, arrived,
                    reduced, output_json, writes >>

\* sampler_test.cpp lines 101-132, rank 0, the sampler returning no job:
\* main returns -1, with no MPI call.
SamplerNull ==
    /\ pc[ROOT] = "sample"
    /\ pc' = [pc EXCEPT ![ROOT] = "returned"]
    /\ UNCHANGED << size, input_bin, total_count, data, local_n, local_data,
                    idx, local_hist, global_hist, bcast_msg, scatter_msg,
                    arrived, reduced, output_json, writes >>

\* sampler_test.cpp lines 101-153, rank 0, the sampler returning a job:
\* the bitstrings of the shots become the stream, which is written to
\* input.bin (the number of shots, 10000 in the source, is at most MaxN
\* here).
SamplerRun ==
    /\ pc[ROOT] = "sample"
    /\ \E bits \in SeqsUpTo(SampleBitstrings, MaxN) :
          /\ total_count' = [total_count EXCEPT ![ROOT] = Len(bits)]
          /\ data' = [data EXCEPT ![ROOT] =
                         [k \in 1 .. Len(bits) |-> Stoul2(bits[k])]]
    /\ input_bin' = WordsOf(FileBytes(data'[ROOT]))
    /\ pc' = [pc EXCEPT ![ROOT] = "bcast"]
    /\ UNCHANGED << size, local_n, local_data, idx, local_hist, global_hist,
                    bcast_msg, scatter_msg, arrived, reduced, output_json,
                    writes >>

\* get_counts.cpp lines 9-17: sampler_test having ended, get_counts is
\* launched with as many ranks in the same directory, where input.bin and
\* output.json are as sampler_test left them.
LaunchGetCounts ==
    /\ Terminated
    /\ writes = 1
    /\ pc' = [r \in Ranks |-> IF r = ROOT THEN "read" ELSE "bcast"]
    /\ total_count' = [r \in Ranks |-> 0]
    /\ data' = [r \in Ranks |-> EmptyVec]
    /\ local_n' = [r \in Ranks |-> 0]
    /\ local_data' = [r \in Ranks |-> EmptyVec]
    /\ idx' = [r \in Ranks |-> 0]
    /\ local_hist' = [r \in Ranks |-> IntVec(0)]
    /\ global_hist' = [r \in Ranks |-> IntVec(0)]
    /\ arrived' = {}
    /\ reduced' = {}
    /\ UNCHANGED << size, input_bin, bcast_msg, scatter_msg, output_json,
                    writes >>

SamplerNext ==
    \/ SamplerNull
    \/ SamplerRun
    \/ LaunchGetCounts
    \/ Next

SamplerSpec == SamplerInit /\ [][SamplerNext]_vars

\* ---- C17

\* Rank 0 of sampler_test has returned from main on a null job.
NullJob == pc[ROOT] = "returned"

\* C17: in sampler_test, once rank 0 has returned on a null job, having
\* called no collective, every other rank is inside its first collective
\* call, the broadcast, which it cannot leave; no step is left to any
\* rank, so that none of them ever completes, and output.json is not
\* written.
C17_NullJobBlocksTheOthers ==
    NullJob =>
        /\ \A r \in Ranks \ {ROOT} :
              pc[r] = "bcast" /\ WaitsInBcast(r) /\ ~ENABLED BcastRecv(r)
        /\ bcast_msg = << >> /\ scatter_msg = << >> /\ arrived = {}
        /\ ~ENABLED SamplerNext
        /\ writes = 0 /\ output_json = NoFile

\* Rank 0 of three has returned on a null job.
C17_Witness ==
    /\ size = 3
    /\ NullJob
    /\ \A r \in Ranks \ {ROOT} : pc[r] = "bcast"

\* ---- C18

\* The run is that of get_counts, launched after sampler_test.
InGetCounts ==
    \/ writes = 2
    \/ writes = 1 /\ pc[ROOT] \in {"read", "bcast", "scatter", "count",
                                   "reduce", "emit"}

\* C18: sampler_test writes the whole of its stream to input.bin, which
\* no later step changes; get_counts, run on that file with as many
\* ranks, reads back as many values and the same values, and the
\* output.json it writes is the one sampler_test had written.
C18_SamePipelineOnPersistedStream ==
    /\ [](/\ (~InGetCounts /\ pc[ROOT] \notin {"sample", "returned"}) =>
                /\ Len(input_bin) = total_count[ROOT]
                /\ input_bin = data[ROOT]
          /\ (InGetCounts /\ pc[ROOT] # "read") =>
                /\ total_count[ROOT] = Len(input_bin)
                /\ data[ROOT] = input_bin)
    /\ [][/\ pc[ROOT] # "sample" => input_bin' = input_bin
          /\ (writes = 1 /\ writes' = 2) => output_json' = output_json]_vars

\* get_counts has ended, having written output.json again, on the three
\* values that sampler_test left to two ranks.
C18_Witness ==
    /\ writes = 2
    /\ Terminated
    /\ size = 2
    /\ input_bin = << 1023, 7, 7 >>
    /\ output_json # EmptyObject

\* ---- C19

\* The slice length of a run on a long file, and whether the number of
\* words counted, size slices of that length, is within the int range.
BulkLocalN == UDiv32(input_bin.n, size)
BulkTotalFits == BulkLocalN >= 0 /\ BulkLocalN <= INT_MAX \div size

\* On a long file: no counter is negative; the local counter of the
\* file's value is the number of samples the rank has counted and the
\* global one the number counted by the ranks summed so far; and the
\* bucket of the value, when any sample was counted, is written with the
\* number of samples counted by all ranks (which no int holds when that
\* number is not within the int range).
BulkCountersExact ==
    LET v == input_bin.v
    IN  /\ \A r \in Ranks : \A b \in DOMAIN local_hist[r].nz :
              local_hist[r].nz[b] >= 0
        /\ \A b \in DOMAIN global_hist[ROOT].nz : global_hist[ROOT].nz[b] >= 0
        /\ \A r \in Ranks :
              (Scattered(r) /\ v < MAXVAL) => At(local_hist[r], v) = idx[r]
        /\ (reduced # {} /\ v < MAXVAL) =>
              /\ BulkLocalN <= INT_MAX \div Cardinality(reduced)
              /\ At(global_hist[ROOT], v) = Cardinality(reduced) * BulkLocalN
        /\ (Written /\ v < MAXVAL /\ BulkLocalN # 0) =>
              /\ BulkTotalFits
              /\ output_json
                    = Render(<< [key |-> v, val |-> size * BulkLocalN] >>)

\* C19, as stated: on every file, of at most 2^32 - 1 words, so that no
\* bucket's total is above 2^32 - 1, no counter wraps or is negative and
\* the bucket is written with its total.
C19_ExactUpToUnsignedRange == input_bin.exists => BulkCountersExact

\* C19, as the code has it, the counters being int: on every file of at
\* most 2^31 - 1 words, so that no bucket's total is above 2^31 - 1, no
\* counter wraps or is negative and the bucket is written with its total.
C19_ExactUpToSignedRange ==
    (input_bin.exists /\ input_bin.n >= 0) => BulkCountersExact

\* One rank has counted 2^31 - 1 samples of value 7, the most an int
\* holds, and the coordinator has written that count.
C19_Witness ==
    /\ size = 1
    /\ input_bin = BulkFile(INT_MAX, 7)
    /\ Written
    /\ At(global_hist[ROOT], 7) = INT_MAX
    /\ output_json = Render(<< [key |-> 7, val |-> INT_MAX] >>)

\* ---- C20

\* Rank r has left the broadcast: it has entered the scatter, or is past it.
Entered(r) == pc[r] \notin {"read", "bcast"}

\* C20: the broadcast gives every rank rank 0's total_count, so that a
\* rank that has entered the scatter has local_n = N div W and a receive
\* buffer of exactly local_n slots; no two ranks are in the scatter with
\* different slice lengths, and a block on its way has that length.
C20_SameSliceLengthEverywhere ==
    /\ \A r \in Ranks :
          Entered(r) =>
              /\ total_count[r] = total_count[ROOT]
              /\ total_count[r] = Len(input_bin)
              /\ local_n[r] = Len(input_bin) \div size
              /\ Len(local_data[r]) = local_n[r]
    /\ \A r, q \in Ranks : (Entered(r) /\ Entered(q)) => local_n[r] = local_n[q]
    /\ \A r \in DOMAIN scatter_msg : Len(scatter_msg[r]) = local_n[ROOT]

\* Three ranks are in the scatter of a stream of three values, none has
\* its slice yet, each with a zeroed receive buffer of one slot.
C20_Witness ==
    /\ size = 3
    /\ Len(input_bin) = 3
    /\ \A r \in Ranks : pc[r] = "scatter" /\ local_n[r] = 1
    /\ \A r \in Ranks : local_data[r] = << 0 >>
    /\ input_bin[1] # 0

=============================================================================
